---- MODULE Spec2Model ----
(***************************************************************************)
(* Task-manager backend: the /api/state handler (GET / PUT / OPTIONS), the *)
(* IST daily reset and the Mongo collection behind them.                   *)
(*                                                                         *)
(* The handler is an async function: it runs synchronously up to each      *)
(* `await`, and the awaited storage operation happens at the database at   *)
(* some later moment.  Each action below is either one synchronous stretch *)
(* of the handler or one storage operation executed by the database, so    *)
(* requests interleave exactly at the awaits.                              *)
(*                                                                         *)
(* A Mongoose document is modelled by its field values, the set of paths   *)
(* Mongoose has marked modified, and its isNew flag: save() of a new       *)
(* document inserts all fields, save() of a loaded document writes the     *)
(* modified paths only.                                                    *)
(***************************************************************************)
EXTENDS Naturals, Integers, Sequences, FiniteSets, TLC

\* ------------------------------------------------------------------ bounds
\* Number of requests that arrive in a behaviour.
MaxReq == 2
\* Number of times the clock moves to the next day.
MaxTicks == 1

\* ------------------------------------------------------------ day-key
\* Instants are counted in half-hours since 2023-12-31T00:00Z.
\* Asia/Kolkata is UTC+5:30, i.e. 11 half-hours.
ISTOffset == 11

\* getISTDayKey formats the calendar day of an instant in Asia/Kolkata as
\* "YYYY-MM-DD".  The key is modelled by its three fixed-width fields
\* <<year, month, day>>; string comparison of the keys is the lexicographic
\* comparison of the fields.  The window covers 2023-12-31 and January 2024.
getISTDayKey(t) ==
  LET n == (t + ISTOffset) \div 48
  IN  IF n = 0 THEN <<2023, 12, 31>> ELSE <<2024, 1, n>>

\* The schema default of istDayKey, the empty string.
EmptyKey == <<>>

\* ----------------------------------------------------------- defaults
Item(id, label, completed) == [id |-> id, label |-> label, completed |-> completed]

defaultBodyTasks ==
  << Item(1, "Push ups", FALSE), Item(2, "Pull ups", FALSE),
     Item(3, "Crunches", FALSE), Item(4, "Crucifix", FALSE),
     Item(5, "Russian Twists", FALSE), Item(6, "Biceps", FALSE),
     Item(7, "Shoulders", FALSE), Item(8, "Triceps", FALSE),
     Item(9, "Forearms", FALSE), Item(10, "Calisthenics", FALSE) >>

defaultSkinTasks ==
  << Item(1, "Body Wash", FALSE), Item(2, "Face Wash", FALSE),
     Item(3, "Clean", FALSE), Item(4, "Face Serum", FALSE),
     Item(5, "Eye Blow Cleaning", FALSE) >>

defaultMindSubjects ==
  << [id |-> "dsa", label |-> "DSA",
      units |-> << Item("dsa-u1", "U1", FALSE), Item("dsa-u2", "U2", FALSE),
                   Item("dsa-u3", "U3", FALSE), Item("dsa-u4", "U4", FALSE) >>,
      links |-> <<>>] >>

defaultReminderSettings == [enabled |-> TRUE, skinTime |-> "21:00", bodyTime |-> "19:00"]

\* The empty object {} that the schema gives the free-form maps.
EmptyObj == <<>>

\* ------------------------------------------------------------- schema
\* new AppState({userId}): every path at its schema default.
\* (server.js's schema has no mindLastReminderDay, weightInput and
\* muscleProgress; there these three stay at the value given here.)
AppStateSchema(userId) ==
  [userId |-> userId,
   plannerTasks |-> <<>>, bodyTasks |-> <<>>, skinTasks |-> <<>>,
   skinSessions |-> 0, mindSubjects |-> <<>>,
   reminderSettings |-> defaultReminderSettings,
   mindReminderTimes |-> EmptyObj, mindReminderEnabled |-> EmptyObj,
   mindLastReminderDay |-> EmptyObj,
   weightInput |-> "", muscleProgress |-> EmptyObj,
   istDayKey |-> EmptyKey]

\* The three checklist collections.
Checklists == {"bodyTasks", "skinTasks", "mindSubjects"}

\* ------------------------------------------------- Mongoose documents
\* A document in memory: values, modified paths, isNew.
NewDoc(val) == [val |-> val, modified |-> {}, isNew |-> TRUE]
Hydrate(val) == [val |-> val, modified |-> {}, isNew |-> FALSE]
NoDoc == [val |-> <<>>, modified |-> {}, isNew |-> FALSE]

\* doc.path = v.  Mongoose marks the path modified when the document is new
\* or the value differs (deep equality) from the current one.
Set(doc, path, v) ==
  [doc EXCEPT !.val[path] = v,
              !.modified = IF doc.isNew \/ v # doc.val[path]
                           THEN @ \cup {path} ELSE @]

\* ---------------------------------------------------- the daily reset
\* An item rebuilt from its id alone instead of spread.
ClearCompletedIdOnly(t) == [id |-> t.id, completed |-> FALSE]

\* (t) => ({ ...t, completed: false })
ClearCompleted(t) ==
  [f \in DOMAIN t \cup {"completed"} |-> IF f = "completed" THEN FALSE ELSE t[f]]

\* c.map((t) => ({ ...t, completed: false }))
ClearAll(c) == [i \in 1..Len(c) |-> ClearCompleted(c[i])]

\* The units of a subject left as they are.
ClearUnitsKeepsFlags(s) ==
  [f \in DOMAIN s \cup {"units"} |->
     IF f = "units" THEN (IF "units" \in DOMAIN s THEN s.units ELSE <<>>) ELSE s[f]]

\* (s) => ({ ...s, units: (s.units || []).map((u) => ({ ...u, completed: false })) })
ClearUnits(s) ==
  LET units == IF "units" \in DOMAIN s THEN s.units ELSE <<>>
  IN  [f \in DOMAIN s \cup {"units"} |->
         IF f = "units" THEN ClearAll(units) ELSE s[f]]

\* c.map(ClearUnits)
ClearAllUnits(c) == [i \in 1..Len(c) |-> ClearUnits(c[i])]

\* No seeding: the collection is used even when it is empty.
OrDefaultNever(c, dflt) == c

\* c?.length ? c : dflt
OrDefault(c, dflt) == IF Len(c) > 0 THEN c ELSE dflt

\* A reset that toggles the flags instead of clearing them and does not
\* write the watermark.
ResetTogglesNoStamp(doc, t) ==
  LET todayIST == getISTDayKey(t)
      Toggle(c) == [i \in 1..Len(c) |-> [c[i] EXCEPT !.completed = ~@]]
  IN  IF doc.val.istDayKey # todayIST
      THEN Set(doc, "bodyTasks", Toggle(OrDefault(doc.val.bodyTasks, defaultBodyTasks)))
      ELSE doc

\* A reset without the day-key check: it clears on every call.
ResetAlways(doc, t) ==
  LET d1 == Set(doc, "bodyTasks",
                ClearAll(OrDefault(doc.val.bodyTasks, defaultBodyTasks)))
      d2 == Set(d1, "skinTasks",
                ClearAll(OrDefault(d1.val.skinTasks, defaultSkinTasks)))
      d3 == Set(d2, "mindSubjects",
                ClearAllUnits(OrDefault(d2.val.mindSubjects, defaultMindSubjects)))
  IN  Set(d3, "istDayKey", getISTDayKey(t))

\* applyISTDailyReset(doc), with the instant at which it reads the clock.
applyISTDailyReset(doc, t) ==
  LET todayIST == getISTDayKey(t)
  IN  IF doc.val.istDayKey # todayIST
      THEN LET d1 == Set(doc, "bodyTasks",
                         ClearAll(OrDefault(doc.val.bodyTasks, defaultBodyTasks)))
               d2 == Set(d1, "skinTasks",
                         ClearAll(OrDefault(d1.val.skinTasks, defaultSkinTasks)))
               d3 == Set(d2, "mindSubjects",
                         ClearAllUnits(OrDefault(d2.val.mindSubjects, defaultMindSubjects)))
           IN  Set(d3, "istDayKey", todayIST)
      ELSE doc

\* ------------------------------------------------------------ storage
\* The collection is the sequence of its documents in insertion order; a
\* document's position stands for its _id.
\* AppState.findOne({ userId }): the position of the first match, 0 for null.
findOne(coll, userId) ==
  IF \E i \in 1..Len(coll) : coll[i].userId = userId
  THEN CHOOSE i \in 1..Len(coll) :
         /\ coll[i].userId = userId
         /\ \A j \in 1..(i - 1) : coll[j].userId # userId
  ELSE 0

\* No unique index: every insert is accepted.
UniqueIndexMissing(coll, val) == TRUE

\* userId: { unique: true }: the unique index refuses a second document
\* with the same userId (duplicate-key error).
UniqueIndexAllows(coll, val) == \A i \in 1..Len(coll) : coll[i].userId # val.userId

\* save() of a loaded document: $set of the modified paths on the document
\* with that _id; with no modified path nothing is written.
UpdateModified(coll, pos, doc) ==
  [coll EXCEPT ![pos] = [f \in DOMAIN @ |-> IF f \in doc.modified THEN doc.val[f] ELSE @[f]]]

\* ----------------------------------------------------------- requests
\* req.query.userId || "demo"
Users == {"demo", "alice"}

\* The verbs a client sends; POST stands for every verb the handler does
\* not know.
Methods == {"GET", "PUT", "OPTIONS", "POST"}

\* Values a client sends in a PUT body.
ClientBodyTasks == << Item(1, "Push ups", TRUE), Item(2, "Pull ups", FALSE) >>
ClientSkinTasks == << Item(1, "Body Wash", TRUE) >>
ClientMindSubjects ==
  << [id |-> "dsa", label |-> "DSA",
      units |-> << Item("dsa-u1", "U1", TRUE) >>, links |-> << "https://a" >>],
     [id |-> "os", label |-> "OS", links |-> <<>>] >>

\* A PUT body: the fields it gives a non-null value (vals), and the fields
\* it gives as JSON null (nulls); every other field is absent.
Body(vals, nulls) == [vals |-> vals, nulls |-> nulls]

Payloads ==
  << Body(<<>>, {}),
     Body([skinSessions |-> 5], {}),
     Body([bodyTasks |-> ClientBodyTasks, skinTasks |-> ClientSkinTasks,
           mindSubjects |-> ClientMindSubjects], {}),
     Body([bodyTasks |-> <<>>, skinTasks |-> <<>>, mindSubjects |-> <<>>], {}),
     Body([plannerTasks |-> << "plan" >>,
           reminderSettings |-> [enabled |-> FALSE, skinTime |-> "20:00", bodyTime |-> "18:00"],
           mindReminderTimes |-> [dsa |-> "08:00"],
           mindReminderEnabled |-> [dsa |-> TRUE],
           mindLastReminderDay |-> [dsa |-> "2024-01-01"],
           weightInput |-> "70",
           muscleProgress |-> [biceps |-> 3]], {"bodyTasks", "skinSessions"}) >>

\* The fields the PUT handler overlays, per entry point: api/state.js
\* overlays eleven, server.js eight.
PutFields(e) ==
  {"plannerTasks", "bodyTasks", "skinTasks", "skinSessions", "mindSubjects",
   "reminderSettings", "mindReminderTimes", "mindReminderEnabled"}
  \cup (IF e = "api" THEN {"mindLastReminderDay", "weightInput", "muscleProgress"} ELSE {})

\* doc.f = payload.f ?? doc.f, for every field the handler overlays.  A
\* field that is absent or null in the body is assigned its own value.
RECURSIVE Overlay(_, _, _)
Overlay(doc, payload, fields) ==
  IF fields = {} THEN doc
  ELSE LET f == CHOOSE x \in fields : TRUE
           v == IF f \in DOMAIN payload.vals THEN payload.vals[f] ELSE doc.val[f]
       IN  Overlay(Set(doc, f, v), payload, fields \ {f})

\* create without the checklists: they get the schema default [].
GetCreateDocNoChecklists(userId, t) ==
  [AppStateSchema(userId) EXCEPT !.istDayKey = getISTDayKey(t)]

\* AppState.create({...}) in the GET handler, with the instant at which it
\* reads the clock.
GetCreateDoc(userId, t) ==
  [AppStateSchema(userId) EXCEPT
     !.plannerTasks = <<>>,
     !.bodyTasks = defaultBodyTasks,
     !.skinTasks = defaultSkinTasks,
     !.skinSessions = 0,
     !.mindSubjects = defaultMindSubjects,
     !.reminderSettings = defaultReminderSettings,
     !.istDayKey = getISTDayKey(t)]

\* The collection at the start holds one record, for "alice", as it is found
\* on a later day: written on 2023-12-31 (IST) with the first body task
\* ticked.  "demo" has no record yet.
StaleAlice ==
  [GetCreateDoc("alice", 0) EXCEPT !.bodyTasks[1].completed = TRUE]

\* ---------------------------------------------------------------- state
VARIABLES
  entry,    \* the entry point serving: "api" (api/state.js) or "server" (server.js)
  uri,      \* whether process.env.MONGODB_URI is set
  now,      \* the clock
  store,    \* the AppState collection
  cached,   \* the cached connection: [conn, promise]
  connects, \* number of mongoose.connect calls made
  arrived,  \* number of requests that have arrived
  req,      \* the handler invocations in progress
  last      \* the request answered last, with its response

vars == <<entry, uri, now, store, cached, connects, arrived, req, last>>

\* The handler invocations that run concurrently.
Reqs == {1, 2}

IdleReq ==
  [pc |-> "idle", method |-> "GET", userId |-> "demo", payload |-> Payloads[1],
   found |-> <<>>, pos |-> 0, doc |-> NoDoc, today |-> EmptyKey,
   status |-> 0, body |-> <<>>, nresp |-> 0, failed |-> ""]

\* What the client of an answered request q observes: the request, what the
\* handler found for it (whether a record existed, and its day-key), the
\* day-key the reset computed, and the response.
Answer(q) ==
  [method |-> q.method, userId |-> q.userId,
   hadDoc |-> q.found # <<>>,
   foundKey |-> IF q.found # <<>> THEN q.found[1].istDayKey ELSE EmptyKey,
   today |-> q.today, failed |-> q.failed,
   status |-> q.status, body |-> q.body, nresp |-> q.nresp]

Init ==
  /\ entry \in {"api", "server"}
  /\ uri \in BOOLEAN
  /\ now = 40
  /\ store = << StaleAlice >>
  /\ cached = [conn |-> FALSE, promise |-> "null"]
  /\ connects = 0
  /\ arrived = 0
  /\ req = [r \in Reqs |-> IdleReq]
  /\ last = Answer(IdleReq)

\* res.status(s).json(b): one more response on request q.
Respond(q, s, b) == [q EXCEPT !.pc = "done", !.status = s, !.body = b, !.nresp = @ + 1]


\* The text of the catch block's error body.
ErrorText(e, method) ==
  IF e = "api" THEN "Server error"
  ELSE IF method = "GET" THEN "Failed to load state" ELSE "Failed to save state"

\* catch (e) { res.status(500).json({ error: ..., details: String(e) }) }
\* after storage operation op threw.
ServerError(e, q, op) ==
  [Respond(q, 500, [error |-> ErrorText(e, q.method)]) EXCEPT !.failed = op]

\* The handler after connectMongo() returned: it reads the userId (u) and
\* dispatches on the verb, up to the first storage operation.
Dispatch(q, u) ==
  IF q.method \in {"GET", "PUT"}
  THEN [q EXCEPT !.pc = "find", !.userId = u]
  ELSE Respond(q, 405, [error |-> "Method not allowed"])

\* Request r moves on to q: when q is answered, its response is the last one
\* sent and the invocation is over.
Step(r, q) ==
  IF q.pc = "done"
  THEN /\ req' = [req EXCEPT ![r] = IdleReq]
       /\ last' = Answer(q)
  ELSE /\ req' = [req EXCEPT ![r] = q]
       /\ UNCHANGED last

\* connectMongo() / connectDb() up to its await: "throw" (Missing
\* MONGODB_URI), "ready" (cached.conn), "start" (mongoose.connect is
\* called and its promise cached) or "wait" (a promise is already cached).
\* api/state.js looks at the uri only when it has to connect; server.js
\* looks at it first.
connectMongo(e, c, u) ==
  IF e = "api"
  THEN IF c.conn THEN "ready"
       ELSE IF c.promise = "null" THEN (IF u THEN "start" ELSE "throw")
       ELSE "wait"
  ELSE IF ~u THEN "throw"
       ELSE IF c.conn THEN "ready"
       ELSE IF c.promise = "null" THEN "start"
       ELSE "wait"

\* A request arrives: the handler runs up to its first await.  The inputs
\* of a request are drawn where the handler first reads them: the verb here,
\* the userId at the dispatch, the body of a PUT after findOne.
Arrive(r, m, u) ==
  /\ req[r].pc = "idle"
  /\ \A r2 \in Reqs : r2 < r => req[r2].pc # "idle"
  /\ arrived < MaxReq
  /\ arrived' = arrived + 1
  /\ entry = "server" => m \in {"GET", "PUT"}
  /\ LET q == [IdleReq EXCEPT !.method = m]
         c == connectMongo(entry, cached, uri)
     IN  /\ (m \notin {"GET", "PUT"} \/ c # "ready") => u = "demo"
         /\ IF m = "OPTIONS"
            THEN /\ Step(r, Respond(q, 204, <<>>))
                 /\ UNCHANGED <<cached, connects>>
            ELSE /\ Step(r, CASE c = "throw" -> ServerError(entry, q, "connect")
                              [] c = "ready" -> Dispatch(q, u)
                              [] OTHER -> [q EXCEPT !.pc = "awaitConn"])
                 /\ cached' = IF c = "start" THEN [cached EXCEPT !.promise = "pending"] ELSE cached
                 /\ connects' = IF c = "start" THEN connects + 1 ELSE connects
  /\ UNCHANGED <<entry, uri, now, store>>

\* mongoose.connect's promise resolves.
ConnectResolve ==
  /\ cached.promise = "pending"
  /\ cached' = [cached EXCEPT !.promise = "resolved"]
  /\ UNCHANGED <<entry, uri, now, store, connects, arrived, req, last>>

\* mongoose.connect's promise rejects.
ConnectReject ==
  /\ cached.promise = "pending"
  /\ cached' = [cached EXCEPT !.promise = "rejected"]
  /\ UNCHANGED <<entry, uri, now, store, connects, arrived, req, last>>

\* cached.conn = await cached.promise, then the verb dispatch.
Connected(r, u) ==
  /\ req[r].pc = "awaitConn"
  /\ cached.promise = "resolved"
  /\ req[r].method \notin {"GET", "PUT"} => u = "demo"
  /\ cached' = [cached EXCEPT !.conn = TRUE]
  /\ Step(r, Dispatch(req[r], u))
  /\ UNCHANGED <<entry, uri, now, store, connects, arrived>>

\* await cached.promise throws.
ConnectFailed(r) ==
  /\ req[r].pc = "awaitConn"
  /\ cached.promise = "rejected"
  /\ Step(r, ServerError(entry, req[r], "connect"))
  /\ UNCHANGED <<entry, uri, now, store, cached, connects, arrived>>

\* The database executes AppState.findOne({ userId }).
Find(r) ==
  /\ req[r].pc = "find"
  /\ LET i == findOne(store, req[r].userId)
     IN  Step(r, [req[r] EXCEPT !.pc = "found", !.pos = i,
                                !.found = IF i = 0 THEN <<>> ELSE << store[i] >>])
  /\ UNCHANGED <<entry, uri, now, store, cached, connects, arrived>>

\* findOne fails.
FindFail(r) ==
  /\ req[r].pc = "find"
  /\ Step(r, ServerError(entry, req[r], "find"))
  /\ UNCHANGED <<entry, uri, now, store, cached, connects, arrived>>

\* The body overlaid before the reset instead of after it.
PutDocOverlayFirst(e, q, t) ==
  LET d0 == IF q.pos = 0 THEN NewDoc(AppStateSchema(q.userId)) ELSE Hydrate(q.found[1])
  IN  applyISTDailyReset(Overlay(d0, q.payload, PutFields(e)), t)

\* The document the PUT handler hands to save(): found or new, reset, then
\* overlaid with the body.
PutDoc(e, q, t) ==
  LET d0 == IF q.pos = 0 THEN NewDoc(AppStateSchema(q.userId)) ELSE Hydrate(q.found[1])
  IN  Overlay(applyISTDailyReset(d0, t), q.payload, PutFields(e))

\* The handler resumes with findOne's result and runs up to its next await:
\* GET without a document calls create; GET with one, and PUT, reset (PUT
\* then overlays the body) and call save.
AfterFind(r, p) ==
  /\ req[r].pc = "found"
  /\ req[r].method # "PUT" => p = 1
  /\ LET q == [req[r] EXCEPT !.payload = Payloads[p]]
     IN  Step(r, IF q.method = "GET" /\ q.pos = 0
                 THEN [q EXCEPT !.pc = "create", !.doc = NewDoc(GetCreateDoc(q.userId, now))]
                 ELSE [q EXCEPT !.pc = "save", !.today = getISTDayKey(now),
                                !.doc = IF q.method = "GET"
                                        THEN applyISTDailyReset(Hydrate(q.found[1]), now)
                                        ELSE PutDoc(entry, q, now)])
  /\ UNCHANGED <<entry, uri, now, store, cached, connects, arrived>>

\* The database executes the insert of AppState.create: the unique index
\* on userId refuses a duplicate, and the handler answers 500.
Create(r) ==
  /\ req[r].pc = "create"
  /\ IF UniqueIndexAllows(store, req[r].doc.val)
     THEN /\ store' = Append(store, req[r].doc.val)
          /\ Step(r, [req[r] EXCEPT !.pc = "created", !.pos = Len(store) + 1,
                                    !.doc = Hydrate(req[r].doc.val)])
     ELSE /\ Step(r, ServerError(entry, req[r], "create"))
          /\ UNCHANGED store
  /\ UNCHANGED <<entry, uri, now, cached, connects, arrived>>

\* create fails for another reason.
CreateFail(r) ==
  /\ req[r].pc = "create"
  /\ Step(r, ServerError(entry, req[r], "create"))
  /\ UNCHANGED <<entry, uri, now, store, cached, connects, arrived>>

\* The GET handler resumes with the created document: reset, then save.
AfterCreate(r) ==
  /\ req[r].pc = "created"
  /\ Step(r, [req[r] EXCEPT !.pc = "save", !.today = getISTDayKey(now),
                            !.doc = applyISTDailyReset(@, now)])
  /\ UNCHANGED <<entry, uri, now, store, cached, connects, arrived>>

\* The body of the 200 response: doc.toObject() for GET, { ok: true } for PUT.
OkBody(q) == IF q.method = "GET" THEN q.doc.val ELSE [ok |-> TRUE]

\* The database executes doc.save() and the handler answers: an insert for
\* a new document (refused by the unique index when the userId exists), an
\* update of the modified paths otherwise.
Save(r) ==
  /\ req[r].pc = "save"
  /\ LET q == req[r]
     IN  IF q.doc.isNew
         THEN IF UniqueIndexAllows(store, q.doc.val)
              THEN /\ store' = Append(store, q.doc.val)
                   /\ Step(r, Respond(q, 200, OkBody(q)))
              ELSE /\ Step(r, ServerError(entry, q, "save"))
                   /\ UNCHANGED store
         ELSE /\ store' = UpdateModified(store, q.pos, q.doc)
              /\ Step(r, Respond(q, 200, OkBody(q)))
  /\ UNCHANGED <<entry, uri, now, cached, connects, arrived>>

\* save fails for another reason.
SaveFail(r) ==
  /\ req[r].pc = "save"
  /\ Step(r, ServerError(entry, req[r], "save"))
  /\ UNCHANGED <<entry, uri, now, store, cached, connects, arrived>>

\* The clock reaches the next day.
Tick ==
  /\ now + 48 <= 40 + 48 * MaxTicks
  /\ now' = now + 48
  /\ UNCHANGED <<entry, uri, store, cached, connects, arrived, req, last>>

Next ==
  \/ \E r \in Reqs, m \in Methods, u \in Users : Arrive(r, m, u)
  \/ ConnectResolve
  \/ ConnectReject
  \/ \E r \in Reqs, u \in Users : Connected(r, u)
  \/ \E r \in Reqs : ConnectFailed(r)
  \/ \E r \in Reqs : Find(r)
  \/ \E r \in Reqs : FindFail(r)
  \/ \E r \in Reqs, p \in 1..Len(Payloads) : AfterFind(r, p)
  \/ \E r \in Reqs : Create(r)
  \/ \E r \in Reqs : CreateFail(r)
  \/ \E r \in Reqs : AfterCreate(r)
  \/ \E r \in Reqs : Save(r)
  \/ \E r \in Reqs : SaveFail(r)
  \/ Tick

Spec == Init /\ [][Next]_vars

\* ------------------------------------------------ src/unnamed/part_000
\* The earlier server.js registers its connect middleware after the routes,
\* so it runs for the requests no route answers.  Its connection state is
\* the flag mongoReady and mongoose.connection.readyState (0 disconnected,
\* 1 connected, 2 connecting), kept here in cached; it caches no promise.

\* Verbs of requests that fall through the routes to the middleware.
Unrouted == {"POST", "DELETE", "PATCH"}

\* ensureMongo() up to its await: "ready" (mongoReady), "throw" (Missing
\* MONGODB_URI), "connected" (readyState === 1: the flag is set) or
\* "connect" (mongoose.connect(uri) is called).
ensureMongo(c, u) ==
  IF c.mongoReady THEN "ready"
  ELSE IF ~u THEN "throw"
  ELSE IF c.readyState = 1 THEN "connected"
  ELSE "connect"

\* catch (e) { res.status(500).json({ error: "DB connection failed", ... }) }
ConnectionFailed(q) ==
  [Respond(q, 500, [error |-> "DB connection failed"]) EXCEPT !.failed = "connect"]

\* next() with no route left: the framework answers 404.
NextRoute(q) == Respond(q, 404, <<>>)

InitPart000 ==
  /\ entry = "part_000"
  /\ uri \in BOOLEAN
  /\ now = 40
  /\ store = << StaleAlice >>
  /\ cached = [mongoReady |-> FALSE, readyState |-> 0]
  /\ connects = 0
  /\ arrived = 0
  /\ req = [r \in Reqs |-> IdleReq]
  /\ last = Answer(IdleReq)

\* A request reaches the middleware: ensureMongo() runs up to its await.
EnsureArrive(r, m) ==
  /\ req[r].pc = "idle"
  /\ \A r2 \in Reqs : r2 < r => req[r2].pc # "idle"
  /\ arrived < MaxReq
  /\ arrived' = arrived + 1
  /\ LET q == [IdleReq EXCEPT !.method = m]
         c == ensureMongo(cached, uri)
     IN  /\ Step(r, CASE c = "throw" -> ConnectionFailed(q)
                      [] c = "connect" -> [q EXCEPT !.pc = "awaitConn"]
                      [] OTHER -> NextRoute(q))
         /\ cached' = CASE c = "connected" -> [cached EXCEPT !.mongoReady = TRUE]
                        [] c = "connect" -> [cached EXCEPT !.readyState = 2]
                        [] OTHER -> cached
         /\ connects' = IF c = "connect" THEN connects + 1 ELSE connects
  /\ UNCHANGED <<entry, uri, now, store>>

\* The connection opens: every pending mongoose.connect promise resolves.
MongooseOpened ==
  /\ cached.readyState = 2
  /\ cached' = [cached EXCEPT !.readyState = 1]
  /\ req' = [r \in Reqs |->
               IF req[r].pc = "awaitConn" THEN [req[r] EXCEPT !.pc = "connOk"] ELSE req[r]]
  /\ UNCHANGED <<entry, uri, now, store, connects, arrived, last>>

\* The connection attempt fails: every pending promise rejects.
MongooseFailed ==
  /\ cached.readyState = 2
  /\ cached' = [cached EXCEPT !.readyState = 0]
  /\ req' = [r \in Reqs |->
               IF req[r].pc = "awaitConn" THEN [req[r] EXCEPT !.pc = "connErr"] ELSE req[r]]
  /\ UNCHANGED <<entry, uri, now, store, connects, arrived, last>>

\* await mongoose.connect(uri) returned: mongoReady = true; next().
EnsureDone(r) ==
  /\ req[r].pc = "connOk"
  /\ cached' = [cached EXCEPT !.mongoReady = TRUE]
  /\ Step(r, NextRoute(req[r]))
  /\ UNCHANGED <<entry, uri, now, store, connects, arrived>>

\* await mongoose.connect(uri) threw: the middleware answers 500.
EnsureFailed(r) ==
  /\ req[r].pc = "connErr"
  /\ Step(r, ConnectionFailed(req[r]))
  /\ UNCHANGED <<entry, uri, now, store, cached, connects, arrived>>

NextPart000 ==
  \/ \E r \in Reqs, m \in Unrouted : EnsureArrive(r, m)
  \/ MongooseOpened
  \/ MongooseFailed
  \/ \E r \in Reqs : EnsureDone(r)
  \/ \E r \in Reqs : EnsureFailed(r)

SpecPart000 == InitPart000 /\ [][NextPart000]_vars

\* ================================================================ claims
\* The instants at which the reset is tried: one on 2023-12-31 (IST) and
\* one on every day the clock can reach.
Instants == {0} \cup {40 + 48 * k : k \in 0..MaxTicks}

\* The Mongoose documents of a state: every stored record as findOne loads
\* it, every record a handler has found, every document a handler holds,
\* and a fresh "new AppState({ userId })" per user (empty collections,
\* empty day-key).
RECURSIVE HandlerDocs(_)
HandlerDocs(rs) ==
  IF rs = {} THEN <<>>
  ELSE LET r == CHOOSE x \in rs : TRUE
       IN  (IF req[r].found # <<>> THEN << Hydrate(req[r].found[1]) >> ELSE <<>>)
           \o (IF req[r].pc \in {"create", "created", "save"} THEN << req[r].doc >> ELSE <<>>)
           \o HandlerDocs(rs \ {r})

Docs ==
  [i \in 1..Len(store) |-> Hydrate(store[i])]
  \o HandlerDocs(Reqs)
  \o << NewDoc(AppStateSchema("demo")), NewDoc(AppStateSchema("alice")) >>

\* a is an earlier day than b ("YYYY-MM-DD" strings compare field by field).
KeyLess(a, b) ==
  \/ a[1] < b[1]
  \/ a[1] = b[1] /\ a[2] < b[2]
  \/ a[1] = b[1] /\ a[2] = b[2] /\ a[3] < b[3]

\* Every completed flag of the three checklists of record v is false.
AllCleared(v) ==
  /\ \A i \in 1..Len(v.bodyTasks) : v.bodyTasks[i].completed = FALSE
  /\ \A i \in 1..Len(v.skinTasks) : v.skinTasks[i].completed = FALSE
  /\ \A i \in 1..Len(v.mindSubjects) :
       "units" \in DOMAIN v.mindSubjects[i] =>
         \A j \in 1..Len(v.mindSubjects[i].units) :
           v.mindSubjects[i].units[j].completed = FALSE

\* Some completed flag of record v is true.
SomeTicked(v) == ~AllCleared(v)

\* ---- C1
\* C1: under any interleaving of GET and PUT requests, with a clock that
\* never goes backwards, the persisted dayKey of a record never changes
\* from a day D to a day earlier than D.
C1_DayKeyNeverRegresses ==
  [][\A i \in 1..Len(store) :
       ~KeyLess(store'[i].istDayKey, store[i].istDayKey)]_vars

\* ---- C2
\* C2: the reset is idempotent: for every document S of the state
\* (including fresh ones with empty day-key and empty collections) and
\* every day D, resetting twice with D yields what resetting once yields.
C2_Idempotent ==
  \A n \in 1..Len(Docs), t \in Instants :
    applyISTDailyReset(applyISTDailyReset(Docs[n], t), t) = applyISTDailyReset(Docs[n], t)

\* A GET has reset a found record on a new day and is about to save it: a
\* second reset of that document on that day is the idempotent case.
C2_Witness ==
  \E r \in Reqs :
    /\ req[r].pc = "save" /\ req[r].method = "GET" /\ req[r].found # <<>>
    /\ req[r].found[1].istDayKey # req[r].today
    /\ req[r].doc.val.istDayKey = req[r].today
    /\ SomeTicked(req[r].found[1]) /\ AllCleared(req[r].doc.val)

\* ---- C3
\* C3: when the stored dayKey equals today's day-key the reset is a no-op:
\* the document (every field, and its modified paths) is the same before
\* and after, and the save of a GET that found such a record leaves the
\* collection unchanged.
C3_NoOpSameDay ==
  [][/\ \A n \in 1..Len(Docs), t \in Instants :
          Docs[n].val.istDayKey = getISTDayKey(t) => applyISTDailyReset(Docs[n], t) = Docs[n]
     /\ \A r \in Reqs :
          ( /\ req[r].pc = "save" /\ req[r].method = "GET" /\ req[r].found # <<>>
            /\ req[r].found[1].istDayKey = req[r].today
            /\ req'[r].pc = "idle" /\ last'.status = 200 )
          => store' = store]_vars

\* A GET was answered for a record that was found with today's day-key and
\* with a ticked item, and the ticked item is still in the response.
C3_Witness ==
  /\ last.method = "GET" /\ last.status = 200 /\ last.hadDoc
  /\ last.foundKey = last.today
  /\ SomeTicked(last.body)

\* ---- C4
\* Everything of item b but its completed flag is what item a has.
SameButCompleted(a, b) ==
  /\ DOMAIN a \subseteq DOMAIN b
  /\ DOMAIN b \ {"completed"} = DOMAIN a \ {"completed"}
  /\ \A f \in DOMAIN a \ {"completed"} : b[f] = a[f]

\* Collection d has the items of collection c in the same order, changed in
\* nothing but their completed flags.
SameItems(c, d) ==
  /\ Len(d) = Len(c)
  /\ \A i \in 1..Len(c) : SameButCompleted(c[i], d[i])

\* Subject z is subject s with nothing changed but the completed flags of
\* its units; a subject without a units field may have gained an empty one.
SameSubject(s, z) ==
  /\ DOMAIN s \subseteq DOMAIN z
  /\ DOMAIN z \ {"units"} = DOMAIN s \ {"units"}
  /\ \A f \in DOMAIN s \ {"units"} : z[f] = s[f]
  /\ "units" \in DOMAIN z =>
       SameItems(IF "units" \in DOMAIN s THEN s.units ELSE <<>>, z.units)

\* The frame of the reset from record v to record w, apart from the sets of
\* fields of the subjects.
ResetFrame(v, w) ==
  /\ SameItems(v.bodyTasks, w.bodyTasks)
  /\ SameItems(v.skinTasks, w.skinTasks)
  /\ Len(w.mindSubjects) = Len(v.mindSubjects)
  /\ \A i \in 1..Len(v.mindSubjects) : SameSubject(v.mindSubjects[i], w.mindSubjects[i])
  /\ \A f \in DOMAIN v \ (Checklists \cup {"istDayKey"}) : w[f] = v[f]
  /\ DOMAIN w = DOMAIN v

\* Record v has no empty checklist.
NonEmptyChecklists(v) ==
  Len(v.bodyTasks) > 0 /\ Len(v.skinTasks) > 0 /\ Len(v.mindSubjects) > 0

\* C4 as stated: for a record with non-empty checklists the reset changes
\* only completed flags and dayKey; in particular every subject keeps its
\* set of fields.
C4_FrameWithFieldSets ==
  \A n \in 1..Len(Docs), t \in Instants :
    NonEmptyChecklists(Docs[n].val) =>
      LET w == applyISTDailyReset(Docs[n], t).val
      IN  /\ ResetFrame(Docs[n].val, w)
          /\ \A i \in 1..Len(w.mindSubjects) :
               DOMAIN w.mindSubjects[i] = DOMAIN Docs[n].val.mindSubjects[i]

\* C4, amended: for a record with non-empty checklists the reset changes
\* only completed flags and dayKey, except that a subject stored without a
\* units field gains an empty units list.
C4_Frame ==
  \A n \in 1..Len(Docs), t \in Instants :
    NonEmptyChecklists(Docs[n].val) =>
      ResetFrame(Docs[n].val, applyISTDailyReset(Docs[n], t).val)

\* A GET has reset, on a new day, a found record with non-empty checklists,
\* ticked items and a subject without units.
C4_Witness ==
  \E r \in Reqs :
    /\ req[r].pc = "save" /\ req[r].method = "GET" /\ req[r].found # <<>>
    /\ req[r].found[1].istDayKey # req[r].today
    /\ NonEmptyChecklists(req[r].found[1])
    /\ SomeTicked(req[r].found[1])
    /\ \E i \in 1..Len(req[r].found[1].mindSubjects) :
         "units" \notin DOMAIN req[r].found[1].mindSubjects[i]
    /\ req[r].doc.val.istDayKey = req[r].today

\* ---- C5
\* The default template of a checklist, every flag false.
DefaultOf(c) ==
  CASE c = "bodyTasks" -> defaultBodyTasks
    [] c = "skinTasks" -> defaultSkinTasks
    [] c = "mindSubjects" -> defaultMindSubjects

\* C5 as stated: whenever the reset is applied to a record with an empty
\* checklist, the result holds the default template instead.
C5_SeedsWheneverEmpty ==
  \A n \in 1..Len(Docs), t \in Instants, c \in Checklists :
    Len(Docs[n].val[c]) = 0 =>
      /\ applyISTDailyReset(Docs[n], t).val[c] = DefaultOf(c)
      /\ Len(applyISTDailyReset(Docs[n], t).val[c]) > 0

\* C5, amended: whenever the reset is applied to a record whose dayKey
\* differs from today's day-key and in which a checklist is empty, the
\* result holds the default template, every flag false, instead.
C5_SeedsOnNewDay ==
  \A n \in 1..Len(Docs), t \in Instants, c \in Checklists :
    (Len(Docs[n].val[c]) = 0 /\ Docs[n].val.istDayKey # getISTDayKey(t)) =>
      /\ applyISTDailyReset(Docs[n], t).val[c] = DefaultOf(c)
      /\ Len(applyISTDailyReset(Docs[n], t).val[c]) > 0
      /\ AllCleared(applyISTDailyReset(Docs[n], t).val)

\* A GET has reset, on a new day, a found record whose checklists were
\* empty, and holds the templates.
C5_Witness ==
  \E r \in Reqs :
    /\ req[r].pc = "save" /\ req[r].method = "GET" /\ req[r].found # <<>>
    /\ req[r].found[1].istDayKey # req[r].today
    /\ \A c \in Checklists : Len(req[r].found[1][c]) = 0
    /\ \A c \in Checklists : req[r].doc.val[c] = DefaultOf(c)

\* ---- C6
\* In this step the save of request r succeeds and r is answered 200.
SaveAnswered(r) ==
  req[r].pc = "save" /\ req'[r].pc = "idle" /\ last'.status = 200

C7_FirstGetCreatesDefaults ==
  (last.method = "GET" /\ last.status = 200 /\ ~last.hadDoc) =>
    /\ last.body.bodyTasks = defaultBodyTasks /\ Len(last.body.bodyTasks) = 10
    /\ last.body.skinTasks = defaultSkinTasks
    /\ last.body.mindSubjects = defaultMindSubjects
    /\ AllCleared(last.body)
    /\ last.body.skinSessions = 0
    /\ last.body.plannerTasks = <<>>
    /\ last.body.userId = last.userId
    /\ last.body.istDayKey = last.today
    /\ Cardinality({i \in 1..Len(store) : store[i].userId = last.userId}) = 1

\* The first GET of "demo" was answered 200.
C7_Witness ==
  /\ last.method = "GET" /\ last.status = 200 /\ ~last.hadDoc
  /\ last.userId = "demo"
  /\ \E i \in 1..Len(store) : store[i].userId = "demo"

\* ---- C8
\* The eleven fields C8 names.
ElevenFields == PutFields("api")

\* The record a PUT q starts from, reset on the day q computed.
Reconciled(q) ==
  LET base == IF q.found = <<>> THEN NewDoc(AppStateSchema(q.userId))
              ELSE Hydrate(q.found[1])
      t == CHOOSE x \in Instants : getISTDayKey(x) = q.today
  IN  applyISTDailyReset(base, t).val

\* The stored record of PUT q after its save.
Persisted(q, coll) == IF q.doc.isNew THEN coll[Len(coll)] ELSE coll[q.pos]

\* No other request wrote q's record between q's findOne and its save.
Undisturbed(q) == q.doc.isNew \/ store[q.pos] = q.found[1]

C9_OneRecordPerUser ==
  [][/\ \A i, j \in 1..Len(store') : store'[i].userId = store'[j].userId => i = j
     /\ \A i, j \in 1..Len(store) : store[i].userId = store[j].userId => i = j
     /\ Len(store') >= Len(store)
     /\ \A i \in 1..Len(store) : store'[i].userId = store[i].userId]_vars

\* Two requests found no record for the same userId; one has inserted its
\* record and the other is about to insert.
C9_Witness ==
  \E r \in Reqs :
    /\ req[r].pc \in {"create", "save"} /\ req[r].doc.isNew /\ req[r].found = <<>>
    /\ ~UniqueIndexAllows(store, req[r].doc.val)

\* ---- C10
\* C10: every request gets exactly one response; a verb other than GET, PUT
\* and OPTIONS is answered 405; a GET or PUT in which connect, find, create
\* or save fails is answered 500 at once, the failed operation not retried.
C10_Responses ==
  /\ \A r \in Reqs : req[r].nresp = 0 /\ req[r].failed = ""
  /\ last.status # 0 =>
       /\ last.nresp = 1
       /\ last.method \notin {"GET", "PUT", "OPTIONS"} => last.status = 405
       /\ (last.method \in {"GET", "PUT"} /\ last.failed # "") => last.status = 500
       /\ last.method = "OPTIONS" => last.status = 204

\* ---- C11
\* C11: the connection is initialised once: mongoose.connect is called only
\* when no earlier attempt is in progress and no connection is open, so the
\* requests that arrive before the first attempt completes start it at most
\* once.  Stated for the middleware of src/unnamed/part_000.
C11_SingleInit ==
  [][connects' > connects => cached.readyState = 0]_vars

\* The same property for connectMongo (api/state.js) and connectDb
\* (server.js): a connect starts only with no promise cached, hence once.
C11_CachedPromise ==
  /\ connects <= 1
  /\ connects = 1 <=> cached.promise # "null"
  /\ cached.conn => cached.promise = "resolved"

\* ---- C12
\* The request answered last was a successful request with verb m for the
\* user of q, reconciled on the day q computed.
LastWas(m, q) ==
  /\ last.method = m /\ last.status = 200
  /\ last.userId = q.userId /\ last.today = q.today

\* C12: a GET never erases what a PUT wrote on the same day.  When a GET
\* for a user completes after a PUT for that user reconciled on the same
\* day, its save leaves bodyTasks, skinTasks and mindSubjects as the PUT
\* left them; when the PUT completes after the GET, the stored checklists
\* are the ones its body supplied.  Both hold whether or not the two read
\* the record before either saved.
C12_GetKeepsPutWrites ==
  [][\A r \in Reqs :
       SaveAnswered(r) =>
         /\ (req[r].method = "GET" /\ req[r].found # <<>> /\ LastWas("PUT", req[r])) =>
              \A f \in Checklists : store'[req[r].pos][f] = store[req[r].pos][f]
         /\ (req[r].method = "PUT" /\ LastWas("GET", req[r])) =>
              \A f \in Checklists \cap DOMAIN req[r].payload.vals :
                Persisted(req[r], store')[f] = req[r].payload.vals[f]]_vars

====
